---- MODULE Spec2Model ----
(***************************************************************************)
(* Model of src/data_preparation.py: the batch pipeline main() runs        *)
(* (connect, fetch, close, clean_data, add_derived_features,               *)
(* export_to_csv, generate_summary_stats) and the two pure table           *)
(* transforms clean_data and add_derived_features.                         *)
(*                                                                         *)
(* Representation.                                                         *)
(*  - A table (DataFrame) is a record [cols, rows]: cols is df.columns,    *)
(*    rows a sequence of functions from column name to cell.               *)
(*  - A nullable cell is <<>> (NaN / NaT / None) or <<v>>.                 *)
(*  - Age is fixed-point in halves of a year (60 is 30 years, 61 is 30.5), *)
(*    so that the median of two whole ages is exact.                       *)
(*  - Monetary and Monetary_Capped are fixed-point in eighths of a         *)
(*    currency unit (800 is 100.00), so that linear-interpolated quartiles *)
(*    of whole amounts and 1.5 * IQR are exact.                            *)
(*  - A date cell is [kind, day]: kind "text" as fetched, "ts" once        *)
(*    pd.to_datetime has parsed it, "bad" when the text is no date; day is *)
(*    the whole-day number.                                                *)
(***************************************************************************)
EXTENDS Integers, Sequences, FiniteSets, TLC

VARIABLES
    pc,          \* the step main() is at; "returned" and "raised" end the run
    conn,        \* "unset", "None", "open" or "closed"
    closes,      \* how many times conn.close() has run
    dfIsNone,    \* df is None (fetch_customer_data failed)
    df,          \* the table main() holds
    input,       \* the table as fetched
    first,       \* the result of the first clean_data, kept when it runs again
    now,         \* the readings of datetime.now() so far
    calls,       \* the functions main() has called, in order
    log,         \* the lines printed that report an outcome
    fileWritten, \* the output file exists
    raised       \* the exception that left main(), "" when none

vars == <<pc, conn, closes, dfIsNone, df, input, first, now, calls, log,
          fileWritten, raised>>

(***************************************************************************)
(* Cells                                                                   *)
(***************************************************************************)
Null == <<>>

Some(v) == <<v>>

IsNull(c) == c = Null

Val(c) == c[1]

Min(a, b) == IF a <= b THEN a ELSE b

Money(m) == 8 * m

Years(a) == 2 * a

(***************************************************************************)
(* Series helpers (pandas)                                                 *)
(***************************************************************************)
RECURSIVE Insert(_, _)
Insert(s, x) ==
    IF s = <<>> THEN <<x>>
    ELSE IF x <= Head(s) THEN <<x>> \o s
    ELSE <<Head(s)>> \o Insert(Tail(s), x)

RECURSIVE sort_values(_)
sort_values(s) == IF s = <<>> THEN <<>> ELSE Insert(sort_values(Tail(s)), Head(s))

Column(rows, c) == [i \in 1..Len(rows) |-> rows[i][c]]

RECURSIVE DropNull(_)
DropNull(s) ==
    IF s = <<>> THEN <<>>
    ELSE IF IsNull(Head(s)) THEN DropNull(Tail(s))
    ELSE <<Val(Head(s))>> \o DropNull(Tail(s))

\* Series.median(): nulls skipped; NaN for an all-null or empty column
median(s) ==
    LET v == sort_values(DropNull(s))
        n == Len(v)
    IN  IF n = 0 THEN Null
        ELSE IF n % 2 = 1 THEN Some(v[(n + 1) \div 2])
        ELSE Some((v[n \div 2] + v[n \div 2 + 1]) \div 2)

\* Series.fillna(value): a NaN value fills nothing
fillna(c, value) == IF IsNull(c) /\ ~IsNull(value) THEN value ELSE c

\* Series.quantile(q4 / 4), linear interpolation; NaN for an empty column
quantile(s, q4) ==
    LET v  == sort_values(s)
        n  == Len(v)
        p4 == (n - 1) * q4
        lo == p4 \div 4 + 1
        hi == Min(lo + 1, n)
    IN  IF n = 0 THEN Null
        ELSE Some(v[lo] + ((p4 % 4) * (v[hi] - v[lo])) \div 4)

\* clip(lower=u) in place of clip(upper=u)
clip_lower(x, upper) == IF IsNull(upper) \/ x >= Val(upper) THEN x ELSE Val(upper)

\* Series.clip(upper=u): a NaN bound clips nothing
clip(x, upper) == IF IsNull(upper) THEN x ELSE Min(x, Val(upper))

\* pd.to_datetime on one cell
to_datetime(c) ==
    IF IsNull(c) THEN Null ELSE Some([kind |-> "ts", day |-> Val(c).day])

Unparsable(c) == ~IsNull(c) /\ Val(c).kind = "bad"

(***************************************************************************)
(* clean_data                                                              *)
(***************************************************************************)
date_columns == <<"JoinDate", "LastPurchaseDate", "FirstPurchaseDate">>

\* the first column of `order` that `cols` lacks, as a set (empty: none)
FirstMissing(order, cols) ==
    LET miss == {i \in 1..Len(order) : order[i] \notin cols}
    IN  IF miss = {} THEN {}
        ELSE {order[CHOOSE i \in miss : \A j \in miss : i <= j]}

\* lines 70-72: fillna(..., inplace=True) on a column, taking effect on df (the
\* behaviour of pandas before copy-on-write); the median is taken before the
\* duplicates are dropped
FillMissing(t) ==
    LET m == median(Column(t.rows, "Age"))
    IN  [i \in 1..Len(t.rows) |->
            [t.rows[i] EXCEPT !["Age"]      = fillna(@, m),
                              !["Gender"]   = fillna(@, Some("Unknown")),
                              !["Location"] = fillna(@, Some("Unknown"))]]

ConvertDates(cols, rows) ==
    [i \in 1..Len(rows) |->
        [c \in DOMAIN rows[i] |->
            IF c \in cols /\ \E k \in 1..Len(date_columns) : date_columns[k] = c
            THEN to_datetime(rows[i][c]) ELSE rows[i][c]]]

RECURSIVE KeepFirst(_, _)
KeepFirst(rows, seen) ==
    IF rows = <<>> THEN <<>>
    ELSE IF Head(rows)["CustomerID"] \in seen THEN KeepFirst(Tail(rows), seen)
    ELSE <<Head(rows)>> \o KeepFirst(Tail(rows), seen \cup {Head(rows)["CustomerID"]})

\* keep='last' in place of keep='first'
RECURSIVE drop_duplicates_keep_last(_)
drop_duplicates_keep_last(rows) ==
    IF rows = <<>> THEN <<>>
    ELSE IF \E j \in 2..Len(rows) : rows[j]["CustomerID"] = Head(rows)["CustomerID"]
    THEN drop_duplicates_keep_last(Tail(rows))
    ELSE <<Head(rows)>> \o drop_duplicates_keep_last(Tail(rows))

drop_duplicates(rows) == KeepFirst(rows, {})

upper_fence(rows) ==
    LET Q1 == quantile(Column(rows, "Monetary"), 1)
        Q3 == quantile(Column(rows, "Monetary"), 3)
    IN  IF IsNull(Q1) THEN Null
        ELSE Some(Val(Q3) + (3 * (Val(Q3) - Val(Q1))) \div 2)

\* the capped amounts written back to Monetary as well
CapMonetaryInPlace(rows) ==
    LET fence == upper_fence(rows)
    IN  [i \in 1..Len(rows) |->
            [c \in DOMAIN rows[i] \cup {"Monetary_Capped"} |->
                IF c \in {"Monetary_Capped", "Monetary"}
                THEN clip(rows[i]["Monetary"], fence)
                ELSE rows[i][c]]]

CapMonetary(rows) ==
    LET fence == upper_fence(rows)
    IN  [i \in 1..Len(rows) |->
            [c \in DOMAIN rows[i] \cup {"Monetary_Capped"} |->
                IF c = "Monetary_Capped" THEN clip(rows[i]["Monetary"], fence)
                ELSE rows[i][c]]]

\* the exception clean_data raises on t, "" when it returns
clean_data_raises(t) ==
    IF FirstMissing(<<"Age", "Gender", "Location">>, t.cols) # {} THEN "KeyError"
    ELSE IF \E i \in 1..Len(t.rows), k \in 1..Len(date_columns) :
                /\ date_columns[k] \in t.cols
                /\ Unparsable(t.rows[i][date_columns[k]]) THEN "ValueError"
    ELSE IF FirstMissing(<<"CustomerID", "Monetary">>, t.cols) # {} THEN "KeyError"
    ELSE ""

clean_data(t) ==
    [cols |-> t.cols \cup {"Monetary_Capped"},
     rows |-> CapMonetary(drop_duplicates(ConvertDates(t.cols, FillMissing(t))))]

(***************************************************************************)
(* add_derived_features                                                    *)
(***************************************************************************)
AgeBins == <<0, 25, 35, 45, 55, 65, 100>>

AgeLabels == <<"18-25", "26-35", "36-45", "46-55", "56-65", "65+">>

\* the last bin is (5000, inf)
RevenueBins == <<0, 100, 500, 1000, 5000>>

RevenueLabels == <<"Very Low", "Low", "Medium", "High", "Very High">>

\* pd.cut with right=False: left-closed bins
cut_left_closed(x, bins, labels, scale) ==
    LET hit == {i \in 1..Len(labels) :
                    /\ x >= scale * bins[i]
                    /\ (i + 1 <= Len(bins) => x < scale * bins[i + 1])}
    IN  IF hit = {} THEN Null ELSE Some(labels[CHOOSE i \in hit : TRUE])

\* pd.cut(x, bins, labels) with right-closed bins; bins are in whole units and
\* x is fixed-point with `scale` parts per unit.  A bin past the end of `bins`
\* has no upper edge (float('inf')).
cut(x, bins, labels, scale) ==
    LET hit == {i \in 1..Len(labels) :
                    /\ x > scale * bins[i]
                    /\ (i + 1 <= Len(bins) => x <= scale * bins[i + 1])}
    IN  IF hit = {} THEN Null ELSE Some(labels[CHOOSE i \in hit : TRUE])

\* np.floor of the quotient in place of astype(int)
floor_div(a, b) == a \div b

\* float64 -> int64 of a quotient: astype(int) drops the fraction
astype_int(a, b) == IF a >= 0 THEN a \div b ELSE -((-a) \div b)

\* (datetime.now() - date).dt.days of one cell, the clock reading `at`
days(at, c) == IF IsNull(c) THEN Null ELSE Some(at - Val(c).day)

TenureMonths(at, c) == astype_int(Val(days(at, c)), 30)

\* Series.replace(0, 1)
replace_0_1(f) == IF f = 0 THEN 1 ELSE f

derived_columns == {"TenureMonths", "DaysSinceLastPurchase", "AvgDaysBetweenPurchases",
                    "AgeGroup", "RevenueTier", "EstimatedCLV"}

\* the exception add_derived_features raises on t, "" when it returns:
\* a column it reads is absent (KeyError), or the day count of JoinDate holds
\* a NaN, which astype(int) refuses (IntCastingNaNError, a ValueError)
add_derived_features_raises(t) ==
    IF "JoinDate" \notin t.cols THEN "KeyError"
    ELSE IF \E i \in 1..Len(t.rows) : IsNull(t.rows[i]["JoinDate"]) THEN "ValueError"
    ELSE IF FirstMissing(<<"LastPurchaseDate", "CustomerLifetimeDays", "Frequency",
                           "Age", "Monetary", "PurchaseFrequencyRate">>, t.cols) # {}
         THEN "KeyError"
    ELSE ""

\* now1 and now2 are the two readings of datetime.now() (lines 98 and 101);
\* AvgDaysBetweenPurchases is the exact quotient <<numerator, denominator>>;
\* PurchaseFrequencyRate is in thousandths, EstimatedCLV in 1/8000 of a unit.
DeriveRow(r, now1, now2) ==
    [c \in DOMAIN r \cup derived_columns |->
        CASE c = "TenureMonths" -> TenureMonths(now1, r["JoinDate"])
          [] c = "DaysSinceLastPurchase" -> days(now2, r["LastPurchaseDate"])
          [] c = "AvgDaysBetweenPurchases" ->
                <<r["CustomerLifetimeDays"], replace_0_1(r["Frequency"])>>
          [] c = "AgeGroup" ->
                IF IsNull(r["Age"]) THEN Null
                ELSE cut(Val(r["Age"]), AgeBins, AgeLabels, 2)
          [] c = "RevenueTier" -> cut(r["Monetary"], RevenueBins, RevenueLabels, 8)
          [] c = "EstimatedCLV" ->
                r["Monetary"] * (1000 + r["PurchaseFrequencyRate"] * 365)
          [] OTHER -> r[c]]

add_derived_features(t, now1, now2) ==
    [cols |-> t.cols \cup derived_columns,
     rows |-> [i \in 1..Len(t.rows) |-> DeriveRow(t.rows[i], now1, now2)]]

\* the exception generate_summary_stats raises on t, "" when it returns
generate_summary_stats_raises(t) ==
    IF FirstMissing(<<"CustomerSegment", "Recency", "Frequency", "Monetary",
                      "ActivityStatus">>, t.cols) # {} THEN "KeyError"
    ELSE ""

(***************************************************************************)
(* Inputs                                                                  *)
(***************************************************************************)
MaxRows == 2

MaxCleanRows == 4

MaxDeriveRows == 2

AllCols == {"CustomerID", "Age", "Gender", "Location", "JoinDate", "LastPurchaseDate",
            "FirstPurchaseDate", "Monetary", "Frequency", "CustomerLifetimeDays",
            "PurchaseFrequencyRate", "CustomerSegment", "ActivityStatus", "Recency"}

Text(d) == Some([kind |-> "text", day |-> d])

BaseRow ==
    [CustomerID |-> 7, Age |-> Some(Years(30)), Gender |-> Some("F"),
     Location |-> Some("Leeds"), JoinDate |-> Text(10), LastPurchaseDate |-> Text(40),
     FirstPurchaseDate |-> Text(12), Monetary |-> Money(100), Frequency |-> 0,
     CustomerLifetimeDays |-> 90, PurchaseFrequencyRate |-> 10,
     CustomerSegment |-> "Loyal", ActivityStatus |-> "Active", Recency |-> 5]

Tables(R, n) == UNION {[1..k -> R] : k \in 0..n}

Project(rows, cols) == [i \in 1..Len(rows) |-> [c \in cols |-> rows[i][c]]]

\* rows of the pipeline runs: a duplicate CustomerID with nulls to impute, a
\* null JoinDate, a null LastPurchaseDate, a date text that is no date
MainRows ==
    { BaseRow,
      [BaseRow EXCEPT !.Age = Null, !.Gender = Null, !.Location = Null,
                      !.Monetary = Money(700), !.Frequency = 3],
      [BaseRow EXCEPT !.CustomerID = 8, !.JoinDate = Null],
      [BaseRow EXCEPT !.CustomerID = 9, !.LastPurchaseDate = Null,
                      !.Age = Some(Years(50))],
      [BaseRow EXCEPT !.CustomerID = 10,
                      !.FirstPurchaseDate = Some([kind |-> "bad", day |-> 0])] }

\* the one column the fetched table may lack
MissingChoices == {{}} \cup {{c} : c \in {"Age", "Monetary", "JoinDate",
                                          "FirstPurchaseDate", "Recency"}}

Nows == {60, 61}

\* inputs of clean_data: CustomerID, Age and Monetary vary.  CustomerIDs are
\* only compared for equality, so a new CustomerID is always the next unused
\* number.
CleanAges == {Null, Some(Years(30))}

CleanMonetary == {Money(10), Money(90)}

CleanRow(id, age, m) ==
    [BaseRow EXCEPT !.CustomerID = id, !.Age = age, !.Monetary = m, !.Gender = Null]

\* the CustomerID columns of n rows
CleanIDs(n) ==
    {ids \in [1..n -> 1..n] :
        \A i \in 1..n : ids[i] <= Cardinality({ids[j] : j \in 1..(i - 1)}) + 1}

CleanRows(ids, ages, ms) == [i \in 1..Len(ids) |-> CleanRow(ids[i], ages[i], ms[i])]

\* inputs of add_derived_features: Age (in halves) around every bin edge, and
\* JoinDate around every multiple of 30 days before and after the clock
DeriveAges == {-2, 0, 1, 50, 51, 70, 71, 90, 91, 110, 111, 130, 131, 200, 201}

DeriveJoinDays == {0, 29, 30, 31, 59, 60, 61, 62, 90, 91, 92, 121}

DeriveVariants ==
    {[BaseRow EXCEPT !.Age = Some(a)] : a \in DeriveAges}
    \cup {[BaseRow EXCEPT !.JoinDate = Text(d)] : d \in DeriveJoinDays}
    \cup {[BaseRow EXCEPT !.JoinDate = Null],
          [BaseRow EXCEPT !.LastPurchaseDate = Null, !.Monetary = Money(700),
                          !.Frequency = 3]}

\* row i carries CustomerID i
DeriveRows(rows) == [i \in 1..Len(rows) |-> [rows[i] EXCEPT !.CustomerID = i]]

(***************************************************************************)
(* main()                                                                  *)
(***************************************************************************)
NoTable == [cols |-> {}, rows |-> <<>>]

Init ==
    /\ pc = "create_connection"
    /\ conn = "unset"
    /\ closes = 0
    /\ dfIsNone = FALSE
    /\ df = NoTable
    /\ input = NoTable
    /\ first = NoTable
    /\ now = <<>>
    /\ calls = <<>>
    /\ log = <<>>
    /\ fileWritten = FALSE
    /\ raised = ""

\* lines 153-156: create_connection() and the test of its result
CreateConnection ==
    /\ pc = "create_connection"
    /\ calls' = Append(calls, "create_connection")
    /\ \E ok \in BOOLEAN :
        IF ok
        THEN /\ conn' = "open"
             /\ log' = Append(log, "Database connection successful")
             /\ pc' = "fetch_customer_data"
        ELSE /\ conn' = "None"
             /\ log' = log \o <<"Error connecting to database",
                                "Failed to connect to database. Exiting.">>
             /\ pc' = "returned"
    /\ UNCHANGED <<closes, dfIsNone, df, input, first, now, fileWritten, raised>>

\* line 159: fetch_customer_data(conn); the query file may be unreadable and
\* the query may fail, and both are caught inside it
FetchCustomerData ==
    /\ pc = "fetch_customer_data"
    /\ calls' = Append(calls, "fetch_customer_data")
    /\ \E outcome \in {"no_query_file", "query_error", "ok"} :
        IF outcome = "ok"
        THEN \E rows \in Tables(MainRows, MaxRows), miss \in MissingChoices :
                /\ df' = [cols |-> AllCols \ miss, rows |-> Project(rows, AllCols \ miss)]
                /\ input' = df'
                /\ dfIsNone' = FALSE
                /\ log' = Append(log, "Fetched customer records")
        ELSE /\ dfIsNone' = TRUE
             /\ log' = Append(log, "Error fetching data")
             /\ UNCHANGED <<df, input>>
    /\ pc' = "close"
    /\ UNCHANGED <<conn, closes, first, now, fileWritten, raised>>

\* lines 160-166 without the return of line 163
CloseConnectionNoReturn ==
    /\ pc = "close"
    /\ conn' = "closed"
    /\ closes' = closes + 1
    /\ log' = IF dfIsNone THEN Append(log, "Failed to fetch data. Exiting.") ELSE log
    /\ pc' = "clean_data"
    /\ UNCHANGED <<dfIsNone, df, input, first, now, calls, fileWritten, raised>>

\* lines 160-166 without the conn.close() of line 162
CloseConnectionOnSuccessOnly ==
    /\ pc = "close"
    /\ IF dfIsNone
       THEN /\ log' = Append(log, "Failed to fetch data. Exiting.")
            /\ pc' = "returned"
            /\ UNCHANGED <<conn, closes>>
       ELSE /\ conn' = "closed"
            /\ closes' = closes + 1
            /\ pc' = "clean_data"
            /\ UNCHANGED log
    /\ UNCHANGED <<dfIsNone, df, input, first, now, calls, fileWritten, raised>>

\* lines 160-166: conn.close() on the failure path and on the success path
CloseConnection ==
    /\ pc = "close"
    /\ conn' = "closed"
    /\ closes' = closes + 1
    /\ IF dfIsNone
       THEN /\ log' = Append(log, "Failed to fetch data. Exiting.")
            /\ pc' = "returned"
       ELSE /\ pc' = "clean_data"
            /\ UNCHANGED log
    /\ UNCHANGED <<dfIsNone, df, input, first, now, calls, fileWritten, raised>>

\* line 169: nothing in main() catches what clean_data raises
CleanData ==
    /\ pc = "clean_data"
    /\ calls' = Append(calls, "clean_data")
    /\ IF clean_data_raises(df) = ""
       THEN /\ df' = clean_data(df)
            /\ log' = Append(log, "Data cleaned")
            /\ pc' = "add_derived_features"
            /\ UNCHANGED raised
       ELSE /\ raised' = clean_data_raises(df)
            /\ pc' = "raised"
            /\ UNCHANGED <<df, log>>
    /\ UNCHANGED <<conn, closes, dfIsNone, input, first, now, fileWritten>>

\* line 170: the clock is read twice and may pass midnight in between
AddDerivedFeatures ==
    /\ pc = "add_derived_features"
    /\ calls' = Append(calls, "add_derived_features")
    /\ IF add_derived_features_raises(df) = ""
       THEN \E now1 \in Nows, tick \in {0, 1} :
                /\ now' = <<now1, now1 + tick>>
                /\ df' = add_derived_features(df, now1, now1 + tick)
                /\ log' = Append(log, "Derived features added")
                /\ pc' = "export_to_csv"
                /\ UNCHANGED raised
       ELSE /\ raised' = add_derived_features_raises(df)
            /\ pc' = "raised"
            /\ UNCHANGED <<df, now, log>>
    /\ UNCHANGED <<conn, closes, dfIsNone, input, first, fileWritten>>

\* line 173: export_to_csv catches a failed makedirs or to_csv and returns
ExportToCsv ==
    /\ pc = "export_to_csv"
    /\ calls' = Append(calls, "export_to_csv")
    /\ \E ok \in BOOLEAN :
        IF ok
        THEN /\ fileWritten' = TRUE
             /\ log' = Append(log, "Data exported successfully")
        ELSE /\ log' = Append(log, "Error exporting data")
             /\ UNCHANGED fileWritten
    /\ pc' = "generate_summary_stats"
    /\ UNCHANGED <<conn, closes, dfIsNone, df, input, first, now, raised>>

\* line 176
GenerateSummaryStats ==
    /\ pc = "generate_summary_stats"
    /\ calls' = Append(calls, "generate_summary_stats")
    /\ IF generate_summary_stats_raises(df) = ""
       THEN /\ log' = Append(log, "Customer Segmentation Summary")
            /\ pc' = "banner"
            /\ UNCHANGED raised
       ELSE /\ raised' = generate_summary_stats_raises(df)
            /\ pc' = "raised"
            /\ UNCHANGED log
    /\ UNCHANGED <<conn, closes, dfIsNone, df, input, first, now, fileWritten>>

\* lines 178-179
Banner ==
    /\ pc = "banner"
    /\ log' = Append(log, "Data preparation completed successfully!")
    /\ pc' = "returned"
    /\ UNCHANGED <<conn, closes, dfIsNone, df, input, first, now, calls,
                   fileWritten, raised>>

Next ==
    \/ CreateConnection
    \/ FetchCustomerData
    \/ CloseConnection
    \/ CleanData
    \/ AddDerivedFeatures
    \/ ExportToCsv
    \/ GenerateSummaryStats
    \/ Banner

Spec == Init /\ [][Next]_vars

(***************************************************************************)
(* clean_data on its own: a fetched table, cleaned, and cleaned again      *)
(***************************************************************************)
Fetched(t) ==
    /\ conn = "closed"
    /\ closes = 1
    /\ dfIsNone = FALSE
    /\ input = t
    /\ first = NoTable
    /\ now = <<>>
    /\ log = <<"Database connection successful", "Fetched customer records">>
    /\ fileWritten = FALSE
    /\ raised = ""

InitClean ==
    /\ pc = "clean_data"
    /\ calls = <<"create_connection", "fetch_customer_data">>
    /\ \E n \in 0..MaxCleanRows :
        \E ids \in CleanIDs(n), ages \in [1..n -> CleanAges],
           ms \in [1..n -> CleanMonetary] :
            /\ df = [cols |-> AllCols, rows |-> CleanRows(ids, ages, ms)]
            /\ Fetched(df)

CleanAgain ==
    /\ pc = "add_derived_features"
    /\ clean_data_raises(df) = ""
    /\ first' = df
    /\ df' = clean_data(df)
    /\ calls' = Append(calls, "clean_data")
    /\ log' = Append(log, "Data cleaned")
    /\ pc' = "cleaned_twice"
    /\ UNCHANGED <<conn, closes, dfIsNone, input, now, fileWritten, raised>>

NextClean == CleanData \/ CleanAgain

SpecClean == InitClean /\ [][NextClean]_vars

(***************************************************************************)
(* add_derived_features on its own, on the output of clean_data            *)
(***************************************************************************)
InitDerive ==
    /\ pc = "add_derived_features"
    /\ calls = <<"create_connection", "fetch_customer_data", "clean_data">>
    /\ \E n \in 0..MaxDeriveRows :
        \E rows \in [1..n -> DeriveVariants] :
            /\ df = clean_data([cols |-> AllCols, rows |-> DeriveRows(rows)])
            /\ Fetched([cols |-> AllCols, rows |-> DeriveRows(rows)])

NextDerive == AddDerivedFeatures

SpecDerive == InitDerive /\ [][NextDerive]_vars

(***************************************************************************)
(* Properties                                                              *)
(***************************************************************************)
Has(s, x) == \E i \in 1..Len(s) : s[i] = x

Called(f) == Has(calls, f)

IDs(rows) == {rows[i]["CustomerID"] : i \in 1..Len(rows)}

FirstIndex(rows, id) ==
    CHOOSE k \in 1..Len(rows) :
        /\ rows[k]["CustomerID"] = id
        /\ \A j \in 1..(k - 1) : rows[j]["CustomerID"] # id

\* the columns clean_data reads but never writes
Untouched == {"CustomerID", "Monetary", "Frequency", "CustomerLifetimeDays",
              "PurchaseFrequencyRate", "CustomerSegment", "ActivityStatus", "Recency"}

Cleaned == pc = "add_derived_features" /\ Called("clean_data")

Derived == pc = "export_to_csv" /\ Called("add_derived_features")

\* C1: no missing-column fault (a KeyError of clean_data,
\* add_derived_features or generate_summary_stats) propagates out of main()
C1_NoKeyErrorLeavesMain == raised # "KeyError"

\* C2: add_derived_features, called on a table that has every column it
\* reads, returns whatever dates are null, and a null LastPurchaseDate leaves
\* only that row's DaysSinceLastPurchase null
C2_NullDateNeverAborts ==
    /\ (Called("add_derived_features") /\ input.cols = AllCols) => raised = ""
    /\ Derived =>
        \A i \in 1..Len(df.rows) :
            IsNull(df.rows[i]["DaysSinceLastPurchase"])
                <=> IsNull(df.rows[i]["LastPurchaseDate"])

\* C3: once export_to_csv has reported a failed write, the run ends: neither
\* generate_summary_stats nor the success banner follows
C3_RunEndsAfterFailedWrite ==
    Has(log, "Error exporting data") =>
        /\ ~Called("generate_summary_stats")
        /\ ~Has(log, "Data preparation completed successfully!")

\* C4: after a failed connect or a failed fetch main() returns without
\* raising and calls no later stage, writes no file and prints no banner;
\* and export_to_csv is called only after connect, fetch, clean_data and
\* add_derived_features have completed, in that order
C4_EarlyReturn ==
    /\ (conn = "None" \/ dfIsNone) =>
        /\ pc \in {"close", "returned"}
        /\ raised = ""
        /\ \A f \in {"clean_data", "add_derived_features", "export_to_csv",
                     "generate_summary_stats"} : ~Called(f)
        /\ ~fileWritten
        /\ ~Has(log, "Data preparation completed successfully!")
    /\ conn = "None" => calls = <<"create_connection">> /\ pc = "returned"
    /\ Called("export_to_csv") =>
        /\ SubSeq(calls, 1, 5) = <<"create_connection", "fetch_customer_data",
                                   "clean_data", "add_derived_features", "export_to_csv">>
        /\ SelectSeq(log, LAMBDA m : m \in {"Database connection successful",
                "Fetched customer records", "Data cleaned", "Derived features added"})
            = <<"Database connection successful", "Fetched customer records",
                "Data cleaned", "Derived features added">>

C4_Witness == pc = "returned" /\ dfIsNone /\ calls = <<"create_connection",
                                                       "fetch_customer_data">>

\* C5: the output of clean_data holds every CustomerID of the input exactly
\* once, the row kept is the first input row with that CustomerID, and the
\* kept rows are in input order
C5_DedupFirstWins ==
    Cleaned =>
        /\ IDs(df.rows) = IDs(input.rows)
        /\ \A i, j \in 1..Len(df.rows) :
                i # j => df.rows[i]["CustomerID"] # df.rows[j]["CustomerID"]
        /\ \A i \in 1..Len(df.rows) :
            LET src == input.rows[FirstIndex(input.rows, df.rows[i]["CustomerID"])]
            IN  /\ \A c \in Untouched : df.rows[i][c] = src[c]
                /\ ~IsNull(src["Age"]) => df.rows[i]["Age"] = src["Age"]
        /\ \A i, j \in 1..Len(df.rows) :
                i < j => FirstIndex(input.rows, df.rows[i]["CustomerID"])
                            < FirstIndex(input.rows, df.rows[j]["CustomerID"])

\* a duplicate that differs from the row kept, dropped from between two rows
C5_Witness ==
    /\ Cleaned
    /\ Len(df.rows) >= 2
    /\ \E k \in 2..(Len(input.rows) - 1) :
        /\ input.rows[k]["CustomerID"] = input.rows[1]["CustomerID"]
        /\ input.rows[k]["Monetary"] # input.rows[1]["Monetary"]
        /\ input.rows[k + 1]["CustomerID"] # input.rows[1]["CustomerID"]

\* C6: in the output of clean_data, Monetary_Capped <= Monetary and
\* Monetary_Capped <= Q3 + 1.5 * (Q3 - Q1) over the deduplicated Monetary
\* column, and Monetary_Capped = Monetary wherever Monetary is within the fence
C6_CappingBound ==
    Cleaned =>
        \A i \in 1..Len(df.rows) :
            LET Q1 == Val(quantile(Column(df.rows, "Monetary"), 1))
                Q3 == Val(quantile(Column(df.rows, "Monetary"), 3))
                m  == df.rows[i]["Monetary"]
                mc == df.rows[i]["Monetary_Capped"]
            IN  /\ mc <= m
                /\ 2 * mc <= 2 * Q3 + 3 * (Q3 - Q1)
                /\ 2 * m <= 2 * Q3 + 3 * (Q3 - Q1) => mc = m

\* one row capped below its Monetary, another left as it is
C6_Witness ==
    /\ Cleaned
    /\ \E i, j \in 1..Len(df.rows) :
        /\ df.rows[i]["Monetary_Capped"] < df.rows[i]["Monetary"]
        /\ df.rows[j]["Monetary_Capped"] = df.rows[j]["Monetary"]

\* C7: clean_data applied to its own output returns that output unchanged
C7_CleanIdempotent == pc = "cleaned_twice" => df = first

\* the first pass imputed the Age of a row it kept, from a duplicate it dropped
C7_Witness ==
    /\ pc = "cleaned_twice"
    /\ Len(df.rows) < Len(input.rows)
    /\ Len(df.rows) >= 2
    /\ \E i \in 1..Len(df.rows) :
        /\ IsNull(input.rows[FirstIndex(input.rows, df.rows[i]["CustomerID"])]["Age"])
        /\ ~IsNull(df.rows[i]["Age"])

\* the bucket of an age of a halves of a year: (0,25], (25,35], (35,45],
\* (45,55], (55,65], (65,100], nothing outside
AgeBucket(a) ==
    IF a <= 0 \/ a > 200 THEN Null
    ELSE IF a <= 50 THEN Some("18-25")
    ELSE IF a <= 70 THEN Some("26-35")
    ELSE IF a <= 90 THEN Some("36-45")
    ELSE IF a <= 110 THEN Some("46-55")
    ELSE IF a <= 130 THEN Some("56-65")
    ELSE Some("65+")

\* C8: AgeGroup is the label of the right-closed bin Age falls in, and is
\* unassigned for Age <= 0 and for Age > 100
C8_AgeGroupBins ==
    Derived =>
        \A i \in 1..Len(df.rows) :
            /\ ~IsNull(df.rows[i]["Age"])
            /\ df.rows[i]["AgeGroup"] = AgeBucket(Val(df.rows[i]["Age"]))

\* Age 25 in 18-25 beside Age 25.5 in 26-35
C8_Witness ==
    /\ Derived
    /\ \E i, j \in 1..Len(df.rows) :
        /\ df.rows[i]["Age"] = Some(50) /\ df.rows[i]["AgeGroup"] = Some("18-25")
        /\ df.rows[j]["Age"] = Some(51) /\ df.rows[j]["AgeGroup"] = Some("26-35")

JoinDays(i) == now[1] - Val(df.rows[i]["JoinDate"]).day

\* C9 as stated: TenureMonths = floor(d / 30) for every whole-day count d,
\* negative ones included
C9_TenureIsFloor ==
    Derived =>
        \A i \in 1..Len(df.rows) :
            LET m == df.rows[i]["TenureMonths"]
            IN  30 * m <= JoinDays(i) /\ JoinDays(i) < 30 * m + 30

\* C9 amended: TenureMonths is d / 30 with the fraction dropped: floor(d / 30)
\* for d >= 0, and the ceiling of d / 30 for d < 0
C9_TenureTruncates ==
    Derived =>
        \A i \in 1..Len(df.rows) :
            LET m == df.rows[i]["TenureMonths"]
                d == JoinDays(i)
            IN  IF d >= 0 THEN 30 * m <= d /\ d < 30 * m + 30
                ELSE 30 * m - 30 < d /\ d <= 30 * m

\* a JoinDate after the clock: d = -31 gives TenureMonths -1, d = -1 gives 0
C9_Witness ==
    /\ Derived
    /\ \E i, j \in 1..Len(df.rows) :
        /\ JoinDays(i) = -31 /\ df.rows[i]["TenureMonths"] = -1
        /\ JoinDays(j) = -1 /\ df.rows[j]["TenureMonths"] = 0

\* C10: a connection that was opened is closed exactly once, before
\* clean_data starts and before main() returns or raises; nothing is closed
\* that was not opened
C10_ClosedOnce ==
    /\ closes <= 1
    /\ (conn = "closed") <=> (closes = 1)
    /\ closes = 1 => Has(log, "Database connection successful")
    /\ conn = "None" => closes = 0
    /\ (pc \in {"returned", "raised", "clean_data"} \/ Called("clean_data"))
            => conn \in {"None", "closed"}
    /\ conn = "None" => ~Called("fetch_customer_data")

C10_Witness == pc = "clean_data" /\ conn = "closed" /\ closes = 1 /\ ~dfIsNone

====
